---- MODULE Spec2Model ----
(***************************************************************************)
(* Cart and checkout handlers of the product service                       *)
(* (src/services/product/app.py), over the Redis session store or the      *)
(* in-process fallback map.                                                *)
(*                                                                         *)
(* Python dictionaries are objects: a cart obtained from the in-process    *)
(* map is the very object stored there, a cart obtained from Redis is a    *)
(* fresh object built by json.loads.  The model keeps a heap of cart       *)
(* objects so that this difference is visible to concurrent requests.      *)
(***************************************************************************)
EXTENDS Integers, Sequences, FiniteSets, TLC

VARIABLES
    redis_client,   \* TRUE: a Redis client is configured; FALSE: redis_client is None
    kv,             \* the Redis keyspace: key -> None or Some(serialised cart)
    memory_carts,   \* app._memory_carts: user -> None (no entry) or Some(object id)
    heap,           \* object id -> the dictionary held by that object
    catalog,        \* the products table: id -> [title, price]
    last,           \* the last request handled sequentially, with its response
    pc,             \* per worker: position inside api_cart_add
    req,            \* per worker: the request being handled
    loc,            \* per worker: its local variable `cart` (None or Some(object id))
    done            \* per worker: the last response it sent

vars == <<redis_client, kv, memory_carts, heap, catalog, last, pc, req, loc, done>>

-----------------------------------------------------------------------------
(* Bounds and input sets *)

MaxQty == 2

UserSeq == <<"u1", "u2">>
Users == {UserSeq[i] : i \in DOMAIN UserSeq}
Workers == {"w1", "w2"}
ProductIds == {1, 2}                 \* rows present in the products table
RequestIds == {0, 1, 2, 3}           \* product_id of a payload: 0 is falsy, 3 has no row
Positive == 1..MaxQty                \* quantity of a payload: a positive integer
NonPositive == (0 - 1)..0            \* quantity of a payload: zero, a negative integer
Quantities == Positive \cup NonPositive
Prices == {5, 10}
ObjIds == 1..(Cardinality(Users) + Cardinality(Workers))

None == << >>
Some(x) == <<x>>

EmptyCart == << >>

-----------------------------------------------------------------------------
(* Values and conversions *)

Digits == <<"0", "1", "2", "3", "4", "5", "6", "7", "8", "9">>

RECURSIVE str(_)
str(n) == IF n < 10 THEN Digits[n + 1] ELSE str(n \div 10) \o Digits[(n % 10) + 1]

Title(id) == "product-" \o str(id)

cart_key(user_id) == "cart:" \o user_id

Keys == {cart_key(u) : u \in Users}

\* json.dumps of a cart: the text is modelled as its set of members
json_dumps(data) == {<<k, data[k]>> : k \in DOMAIN data}

\* json.loads of such a text
json_loads(raw) ==
    [k \in {m[1] : m \in raw} |-> (CHOOSE m \in raw : m[1] = k)[2]]

CartPut(cart, k, entry) ==
    [x \in (DOMAIN cart) \cup {k} |-> IF x = k THEN entry ELSE cart[x]]

CartPop(cart, k) == [x \in (DOMAIN cart) \ {k} |-> cart[x]]

-----------------------------------------------------------------------------
(* The store: Redis keyspace, in-process map, and the heap of dictionaries *)

St == [kv |-> kv, mem |-> memory_carts, heap |-> heap]

Stored(S) == {S.mem[u][1] : u \in {x \in Users : S.mem[x] # None}}

\* a dictionary literal `{}` or the result of json.loads is a new object
Alloc(S, live) ==
    CHOOSE i \in ObjIds :
        /\ i \notin (live \cup Stored(S))
        /\ \A j \in ObjIds : j < i => j \in (live \cup Stored(S))

\* objects no longer referenced are reclaimed
Collect(S, live) ==
    [S EXCEPT !.heap = [i \in ObjIds |->
        IF i \in (live \cup Stored(S)) THEN S.heap[i] ELSE EmptyCart]]

Idx(u) == CHOOSE i \in DOMAIN UserSeq : UserSeq[i] = u

\* object identity is not observable by the handlers: between requests the
\* object stored for a user is named after the user
Rename(S) ==
    [S EXCEPT
        !.mem = [u \in Users |-> IF S.mem[u] = None THEN None ELSE Some(Idx(u))],
        !.heap = [i \in ObjIds |->
            IF \E u \in Users : Idx(u) = i /\ S.mem[u] # None
            THEN S.heap[S.mem[UserSeq[i]][1]]
            ELSE EmptyCart]]

\* The cart a reader would be given for user u when the store works
CartOf(S, u) ==
    IF redis_client
    THEN IF S.kv[cart_key(u)] # None THEN json_loads(S.kv[cart_key(u)][1]) ELSE EmptyCart
    ELSE IF S.mem[u] # None THEN S.heap[S.mem[u][1]] ELSE EmptyCart

Cart(u) == CartOf(St, u)

\* get_cart_data without its `except RedisError`: a failed read raises
get_cart_data_uncaught(S, user_id, live, fail) ==
    LET r == Alloc(S, live)
        raw == S.kv[cart_key(user_id)]
    IN IF redis_client
       THEN [S |-> [S EXCEPT !.heap[r] =
                       IF ~fail /\ raw # None THEN json_loads(raw[1]) ELSE EmptyCart],
             cart |-> r, raised |-> fail, read_error |-> fail]
       ELSE IF S.mem[user_id] # None
            THEN [S |-> S, cart |-> S.mem[user_id][1],
                  raised |-> FALSE, read_error |-> FALSE]
            ELSE [S |-> [S EXCEPT !.heap[r] = EmptyCart],
                  cart |-> r, raised |-> FALSE, read_error |-> FALSE]

get_cart_data(S, user_id, live, fail) ==
    IF redis_client
    THEN IF ~fail
         THEN LET raw == S.kv[cart_key(user_id)]
                  r == Alloc(S, live)
              IN [S |-> [S EXCEPT !.heap[r] =
                            IF raw # None THEN json_loads(raw[1]) ELSE EmptyCart],
                  cart |-> r, raised |-> FALSE, read_error |-> FALSE]
         ELSE \* except RedisError: return {}
              LET r == Alloc(S, live)
              IN [S |-> [S EXCEPT !.heap[r] = EmptyCart],
                  cart |-> r, raised |-> FALSE, read_error |-> TRUE]
    ELSE IF S.mem[user_id] # None
         THEN [S |-> S, cart |-> S.mem[user_id][1],
               raised |-> FALSE, read_error |-> FALSE]
         ELSE LET r == Alloc(S, live)
              IN [S |-> [S EXCEPT !.heap[r] = EmptyCart],
                  cart |-> r, raised |-> FALSE, read_error |-> FALSE]

\* set_cart_data writing line by line: lines stored under the key and missing
\* from `data` are kept
set_cart_data_merge(S, user_id, data, fail) ==
    IF redis_client
    THEN IF ~fail
         THEN LET old == CartOf(S, user_id)
                  new == S.heap[data]
                  merged == [k \in (DOMAIN old) \cup (DOMAIN new) |->
                                IF k \in DOMAIN new THEN new[k] ELSE old[k]]
              IN [S |-> [S EXCEPT !.kv[cart_key(user_id)] = Some(json_dumps(merged))],
                  ok |-> TRUE, raised |-> FALSE]
         ELSE [S |-> S, ok |-> FALSE, raised |-> FALSE]
    ELSE [S |-> [S EXCEPT !.mem[user_id] = Some(data)], ok |-> TRUE, raised |-> FALSE]

set_cart_data(S, user_id, data, fail) ==
    IF redis_client
    THEN IF ~fail
         THEN [S |-> [S EXCEPT !.kv[cart_key(user_id)] = Some(json_dumps(S.heap[data]))],
               ok |-> TRUE, raised |-> FALSE]
         ELSE \* except RedisError: return False
              [S |-> S, ok |-> FALSE, raised |-> FALSE]
    ELSE [S |-> [S EXCEPT !.mem[user_id] = Some(data)], ok |-> TRUE, raised |-> FALSE]

-----------------------------------------------------------------------------
(* Responses *)

NoOrder == << >>

Response(S, status, error, cart, order, read_error, write_error, set_called) ==
    [S |-> S, status |-> status, error |-> error, cart |-> cart, order |-> order,
     read_error |-> read_error, write_error |-> write_error, set_called |-> set_called]

\* abort(code, message)
abort(S, status, error) ==
    Response(S, status, error, EmptyCart, NoOrder, FALSE, FALSE, FALSE)

\* an exception that no handler catches ends in the 500 of handle_exception
handle_exception(S, read_error, write_error, set_called) ==
    Response(S, 500, "RedisError", EmptyCart, NoOrder, read_error, write_error, set_called)

-----------------------------------------------------------------------------
(* Handlers *)

api_cart_get(S, user_id, rfail) ==
    LET g == get_cart_data(S, user_id, {}, rfail)
    IN IF g.raised
       THEN handle_exception(S, TRUE, FALSE, FALSE)
       ELSE Response(g.S, 200, "", g.S.heap[g.cart], NoOrder, g.read_error, FALSE, FALSE)

\* add_entry setting the quantity instead of adding to it
add_entry_overwrite(S, cart, product_id, qty, p) ==
    [S EXCEPT !.heap[cart] =
        CartPut(S.heap[cart], str(product_id),
                [quantity |-> qty, title |-> p.title, price |-> p.price])]

\* lines 330-334: the entry of the product is created or incremented in place
add_entry(S, cart, product_id, qty, p) ==
    LET d == S.heap[cart]
        k == str(product_id)
        entry == IF k \in DOMAIN d THEN d[k] ELSE [quantity |-> 0]
        quantity == (IF "quantity" \in DOMAIN entry THEN entry.quantity ELSE 0) + qty
    IN [S EXCEPT !.heap[cart] =
            CartPut(d, k, [quantity |-> quantity, title |-> p.title, price |-> p.price])]

api_cart_add(S, user_id, product_id, qty, rfail, wfail) ==
    IF product_id = 0
    THEN abort(S, 400, "product_id required")
    ELSE IF product_id \notin DOMAIN catalog
    THEN abort(S, 404, "product not found")
    ELSE LET p == catalog[product_id]
             g == get_cart_data(S, user_id, {}, rfail)
         IN IF g.raised
            THEN handle_exception(S, TRUE, FALSE, FALSE)
            ELSE LET S1 == add_entry(g.S, g.cart, product_id, qty, p)
                     w == set_cart_data(S1, user_id, g.cart, wfail)
                 IN IF w.raised
                    THEN handle_exception(w.S, g.read_error, TRUE, TRUE)
                    ELSE Response(w.S, 201, "", w.S.heap[g.cart], NoOrder,
                                  g.read_error, ~w.ok, TRUE)

\* update_entry adding to the quantity instead of setting it
update_entry_additive(S, cart, product_id, qty) ==
    LET d == S.heap[cart]
    IN [S EXCEPT !.heap[cart] =
            IF qty <= 0
            THEN CartPop(d, product_id)
            ELSE [d EXCEPT ![product_id].quantity = d[product_id].quantity + qty]]

\* lines 347-350: a quantity <= 0 drops the entry, any other replaces its quantity
update_entry(S, cart, product_id, qty) ==
    LET d == S.heap[cart]
    IN [S EXCEPT !.heap[cart] =
            IF qty <= 0
            THEN CartPop(d, product_id)
            ELSE [d EXCEPT ![product_id].quantity = qty]]

api_cart_update(S, user_id, pid, qty, rfail, wfail) ==
    LET product_id == str(pid)
        g == get_cart_data(S, user_id, {}, rfail)
    IN IF g.raised
       THEN handle_exception(S, TRUE, FALSE, FALSE)
       ELSE IF product_id \notin DOMAIN g.S.heap[g.cart]
       THEN Response(S, 404, "item not in cart", EmptyCart, NoOrder,
                     g.read_error, FALSE, FALSE)
       ELSE LET S1 == update_entry(g.S, g.cart, product_id, qty)
                w == set_cart_data(S1, user_id, g.cart, wfail)
            IN IF w.raised
               THEN handle_exception(w.S, g.read_error, TRUE, TRUE)
               ELSE Response(w.S, 200, "", w.S.heap[g.cart], NoOrder,
                             g.read_error, ~w.ok, TRUE)

\* api_cart_delete without its membership test
line_present_always(product_id, d) == TRUE

\* `product_id in cart`
line_present(product_id, d) == product_id \in DOMAIN d

api_cart_delete(S, user_id, pid, rfail, wfail) ==
    LET product_id == str(pid)
        g == get_cart_data(S, user_id, {}, rfail)
    IN IF g.raised
       THEN handle_exception(S, TRUE, FALSE, FALSE)
       ELSE IF line_present(product_id, g.S.heap[g.cart])
       THEN LET S1 == [g.S EXCEPT !.heap[g.cart] = CartPop(g.S.heap[g.cart], product_id)]
                w == set_cart_data(S1, user_id, g.cart, wfail)
            IN IF w.raised
               THEN handle_exception(w.S, g.read_error, TRUE, TRUE)
               ELSE Response(w.S, 200, "", w.S.heap[g.cart], NoOrder,
                             g.read_error, ~w.ok, TRUE)
       ELSE Response(g.S, 200, "", g.S.heap[g.cart], NoOrder, g.read_error, FALSE, FALSE)

\* sum(item["price"] * item["quantity"] for item in cart.values())
RECURSIVE sum_items(_, _)
sum_items(d, keys) ==
    IF keys = {}
    THEN 0
    ELSE LET k == CHOOSE x \in keys : TRUE
         IN d[k].price * d[k].quantity + sum_items(d, keys \ {k})

IdOf(k) == CHOOSE id \in ProductIds : str(id) = k

\* order_total reading the price of each product from the catalog
RECURSIVE sum_live(_, _)
sum_live(d, keys) ==
    IF keys = {}
    THEN 0
    ELSE LET k == CHOOSE x \in keys : TRUE
         IN catalog[IdOf(k)].price * d[k].quantity + sum_live(d, keys \ {k})

order_total_live(d) == sum_live(d, DOMAIN d)

order_total(d) == sum_items(d, DOMAIN d)

\* api_checkout without its test for an empty cart
falsy_never(d) == FALSE

\* `not cart`
falsy_cart(d) == d = EmptyCart

api_checkout(S, user_id, rfail, wfail) ==
    LET g == get_cart_data(S, user_id, {}, rfail)
    IN IF g.raised
       THEN handle_exception(S, TRUE, FALSE, FALSE)
       ELSE LET d == g.S.heap[g.cart]
            IN IF falsy_cart(d)
               THEN Response(S, 400, "cart empty", EmptyCart, NoOrder,
                             g.read_error, FALSE, FALSE)
               ELSE LET order == [user_id |-> user_id, items |-> d,
                                  total |-> order_total(d), status |-> "confirmed"]
                        e == Alloc(g.S, {g.cart})
                        S1 == [g.S EXCEPT !.heap[e] = EmptyCart]
                        w == set_cart_data(S1, user_id, e, wfail)
                    IN IF w.raised
                       THEN handle_exception(w.S, g.read_error, TRUE, TRUE)
                       ELSE Response(w.S, 201, "", EmptyCart, Some(order),
                                     g.read_error, ~w.ok, TRUE)

-----------------------------------------------------------------------------
(* Sequential requests: one handler runs from start to end *)

FailChoices == IF redis_client THEN BOOLEAN ELSE {FALSE}

QtyInRange(d) == \A k \in DOMAIN d : d[k].quantity \in Quantities

\* quantities are kept inside the modelled range
InRange(r, u) ==
    /\ QtyInRange(r.cart)
    /\ QtyInRange(CartOf(r.S, u))

Idle == [op |-> "none", user |-> "", pid |-> 0, qty |-> 0, status |-> 0, error |-> "",
         cart |-> EmptyCart, order |-> NoOrder,
         read_error |-> FALSE, write_error |-> FALSE, set_called |-> FALSE]

\* rf, wf: the store read, the store write of this request fails if it is made
Commit(r, op, u, p, q, rf, wf) ==
    LET N == Rename(Collect(r.S, {}))
    IN /\ rf => r.read_error
       /\ wf => r.write_error
       /\ InRange(r, u)
       /\ kv' = N.kv
       /\ memory_carts' = N.mem
       /\ heap' = N.heap
       /\ last' = [op |-> op, user |-> u, pid |-> p, qty |-> q,
                   status |-> r.status, error |-> r.error,
                   cart |-> r.cart, order |-> r.order,
                   read_error |-> r.read_error, write_error |-> r.write_error,
                   set_called |-> r.set_called]
       /\ UNCHANGED <<redis_client, catalog, pc, req, loc, done>>

CartGet(u, rf) == Commit(api_cart_get(St, u, rf), "get", u, 0, 0, rf, FALSE)

CartAdd(u, p, q, rf, wf) ==
    Commit(api_cart_add(St, u, p, q, rf, wf), "add", u, p, q, rf, wf)

CartUpdate(u, p, q, rf, wf) ==
    Commit(api_cart_update(St, u, p, q, rf, wf), "update", u, p, q, rf, wf)

CartDelete(u, p, rf, wf) ==
    Commit(api_cart_delete(St, u, p, rf, wf), "remove", u, p, 0, rf, wf)

Checkout(u, rf, wf) == Commit(api_checkout(St, u, rf, wf), "checkout", u, 0, 0, rf, wf)

\* the 24h TTL of a cart key runs out
Expire(u) ==
    /\ redis_client
    /\ kv[cart_key(u)] # None
    /\ kv' = [kv EXCEPT ![cart_key(u)] = None]
    /\ last' = Idle
    /\ UNCHANGED <<redis_client, memory_carts, heap, catalog, pc, req, loc, done>>

\* the price column of a product row is changed in the database
ChangePrice(id, price) ==
    /\ catalog[id].price # price
    /\ catalog' = [catalog EXCEPT ![id].price = price]
    /\ last' = Idle
    /\ UNCHANGED <<redis_client, kv, memory_carts, heap, pc, req, loc, done>>

Init ==
    /\ redis_client \in BOOLEAN
    /\ kv = [k \in Keys |-> None]
    /\ memory_carts = [u \in Users |-> None]
    /\ heap = [i \in ObjIds |-> EmptyCart]
    /\ catalog = [id \in ProductIds |->
                    [title |-> Title(id), price |-> IF id = 1 THEN 10 ELSE 5]]
    /\ last = Idle
    /\ pc = [w \in Workers |-> "idle"]
    /\ req = [w \in Workers |-> Idle]
    /\ loc = [w \in Workers |-> None]
    /\ done = [w \in Workers |-> Idle]

\* The first user sends every request of the input sets; the second user is a
\* bystander with one product and one quantity, whose cart the requests of the
\* first must leave alone.
PidsOf(u) == IF u = UserSeq[1] THEN RequestIds ELSE {1}

\* update and remove make no falsy test: any id without a line behaves alike
LineIdsOf(u) == PidsOf(u) \ {0}

QtysOf(u) == IF u = UserSeq[1] THEN Quantities ELSE {1}

Next ==
    \/ \E u \in Users, rf \in FailChoices : CartGet(u, rf)
    \/ \E u \in Users, rf, wf \in FailChoices :
          \E p \in PidsOf(u), q \in QtysOf(u) \cap Positive : CartAdd(u, p, q, rf, wf)
    \/ \E u \in Users, rf, wf \in FailChoices :
          \E p \in PidsOf(u), q \in QtysOf(u) \cap NonPositive : CartAdd(u, p, q, rf, wf)
    \/ \E u \in Users, rf, wf \in FailChoices :
          \E p \in LineIdsOf(u), q \in QtysOf(u) : CartUpdate(u, p, q, rf, wf)
    \/ \E u \in Users, rf, wf \in FailChoices :
          \E p \in LineIdsOf(u) : CartDelete(u, p, rf, wf)
    \/ \E u \in Users, rf, wf \in FailChoices : Checkout(u, rf, wf)
    \/ \E u \in Users : Expire(u)

\* One user, a store that works, and a catalog whose prices change
NextPrice ==
    \/ CartGet(UserSeq[1], FALSE)
    \/ \E p \in RequestIds, q \in Quantities : CartAdd(UserSeq[1], p, q, FALSE, FALSE)
    \/ \E p \in LineIdsOf(UserSeq[1]), q \in Quantities :
          CartUpdate(UserSeq[1], p, q, FALSE, FALSE)
    \/ \E p \in LineIdsOf(UserSeq[1]) : CartDelete(UserSeq[1], p, FALSE, FALSE)
    \/ Checkout(UserSeq[1], FALSE, FALSE)
    \/ \E id \in ProductIds, price \in Prices : ChangePrice(id, price)

-----------------------------------------------------------------------------
(* Concurrent requests: api_cart_add runs in one worker per request, and a   *)
(* worker may be preempted between its store read, its in-place change of   *)
(* the dictionary and its store write                                       *)

Live == {loc[w][1] : w \in {x \in Workers : loc[x] # None}}

\* the status line of the response; the body is not kept
WorkerDone(w, status, error) ==
    done' = [done EXCEPT ![w] =
                [req[w] EXCEPT !.status = status, !.error = error,
                               !.set_called = (status = 201)]]

\* lines 319-327: the payload is read and the product looked up
AddStart(w, u, p, q) ==
    /\ pc[w] = "idle"
    /\ req' = [req EXCEPT ![w] = [Idle EXCEPT !.op = "add", !.user = u, !.pid = p, !.qty = q]]
    /\ pc' = [pc EXCEPT ![w] = "lookup"]
    /\ UNCHANGED <<redis_client, kv, memory_carts, heap, catalog, last, loc, done>>

AddLookup(w) ==
    /\ pc[w] = "lookup"
    /\ IF req[w].pid = 0
       THEN /\ WorkerDone(w, 400, "product_id required")
            /\ pc' = [pc EXCEPT ![w] = "idle"]
       ELSE IF req[w].pid \notin DOMAIN catalog
       THEN /\ WorkerDone(w, 404, "product not found")
            /\ pc' = [pc EXCEPT ![w] = "idle"]
       ELSE /\ pc' = [pc EXCEPT ![w] = "read"]
            /\ UNCHANGED done
    /\ UNCHANGED <<redis_client, kv, memory_carts, heap, catalog, last, req, loc>>

\* line 329
AddRead(w) ==
    /\ pc[w] = "read"
    /\ LET g == get_cart_data(St, req[w].user, Live, FALSE)
       IN /\ heap' = g.S.heap
          /\ loc' = [loc EXCEPT ![w] = Some(g.cart)]
    /\ pc' = [pc EXCEPT ![w] = "change"]
    /\ UNCHANGED <<redis_client, kv, memory_carts, catalog, last, req, done>>

\* lines 330-334
AddChange(w) ==
    /\ pc[w] = "change"
    /\ LET S1 == add_entry(St, loc[w][1], req[w].pid, req[w].qty, catalog[req[w].pid])
       IN /\ QtyInRange(S1.heap[loc[w][1]])
          /\ heap' = S1.heap
    /\ pc' = [pc EXCEPT ![w] = "write"]
    /\ UNCHANGED <<redis_client, kv, memory_carts, catalog, last, req, loc, done>>

\* lines 335-336
AddWrite(w) ==
    /\ pc[w] = "write"
    /\ LET r == set_cart_data(St, req[w].user, loc[w][1], FALSE)
           N == Collect(r.S, Live \ {loc[w][1]})
       IN /\ kv' = N.kv
          /\ memory_carts' = N.mem
          /\ heap' = N.heap
          /\ WorkerDone(w, 201, "")
    /\ loc' = [loc EXCEPT ![w] = None]
    /\ pc' = [pc EXCEPT ![w] = "idle"]
    /\ UNCHANGED <<redis_client, catalog, last, req>>

NextConc ==
    \/ \E w \in Workers, p \in RequestIds : AddStart(w, UserSeq[1], p, 1)
    \/ \E w \in Workers : AddLookup(w)
    \/ \E w \in Workers : AddRead(w)
    \/ \E w \in Workers : AddChange(w)
    \/ \E w \in Workers : AddWrite(w)

Spec == Init /\ [][Next]_vars

SpecPrice == Init /\ [][NextPrice]_vars

SpecConc == Init /\ [][NextConc]_vars

-----------------------------------------------------------------------------
(* Properties *)

\* the store after the step
S2 == [kv |-> kv', mem |-> memory_carts', heap |-> heap']

Cart2(u) == CartOf(S2, u)

StoreSame == kv' = kv /\ memory_carts' = memory_carts /\ heap' = heap

QtyBefore(u, k) == IF k \in DOMAIN Cart(u) THEN Cart(u)[k].quantity ELSE 0

StoreWorked(r) == ~r.read_error /\ ~r.write_error

\* C1: a checkout that returns an order leaves the cart of its user empty, in
\* both store modes and whether or not store operations fail.
ClaimCheckoutClearsCart ==
    (last.op = "checkout" /\ last.status = 201) => Cart(last.user) = EmptyCart

\* C2: every line of every stored cart has a quantity of at least 1.
ClaimQuantitiesPositive ==
    \A u \in Users : \A k \in DOMAIN Cart(u) : Cart(u)[k].quantity >= 1

\* C3: with a working store, a successful add of a positive quantity q for
\* product p makes a following get show a line for p whose quantity is the
\* quantity it had before (0 when there was no line) plus q.
AddIsAdditive ==
    [][(last'.op = "add" /\ last'.status = 201 /\ last'.qty > 0 /\ StoreWorked(last'))
        => LET u == last'.user
               k == str(last'.pid)
               seen == api_cart_get(S2, u, FALSE).cart
           IN /\ k \in DOMAIN seen
              /\ seen[k].quantity = QtyBefore(u, k) + last'.qty
              /\ (k \notin DOMAIN Cart(u) => seen[k].quantity = last'.qty)]_vars

AddTwiceWitness ==
    /\ last.op = "add" /\ last.status = 201 /\ StoreWorked(last)
    /\ last.qty = 1
    /\ Cart(last.user)[str(last.pid)].quantity = 2

\* C4: with a working store, update on a product that has a line sets the
\* quantity of the line to exactly the given positive quantity, or removes the
\* line when the quantity is <= 0; update on a product without a line in the
\* cart answers 404 (NotFound).
UpdateIsAbsolute ==
    [][last'.op = "update"
        => LET u == last'.user
               k == str(last'.pid)
           IN /\ k \notin DOMAIN Cart(u) => last'.status = 404 /\ StoreSame
              /\ (k \in DOMAIN Cart(u) /\ StoreWorked(last'))
                    => /\ last'.status = 200
                       /\ IF last'.qty > 0
                          THEN /\ k \in DOMAIN Cart2(u)
                               /\ Cart2(u)[k] = [Cart(u)[k] EXCEPT !.quantity = last'.qty]
                               /\ last'.cart = Cart2(u)
                          ELSE k \notin DOMAIN Cart2(u)]_vars

UpdateWitness ==
    /\ last.op = "update" /\ last.status = 200 /\ StoreWorked(last)
    /\ last.qty = 1
    /\ str(last.pid) \in DOMAIN Cart(last.user)
    /\ Cart(last.user)[str(last.pid)].quantity = 1
    /\ Cardinality(DOMAIN Cart(last.user)) = 2

\* C5: remove of a product without a line answers 200 with the cart unchanged
\* and does not write to the store; with a working store, after remove the
\* product has no line, the other lines are as before, and a second remove
\* changes neither the store nor the answer.
RemoveIsIdempotent ==
    [][last'.op = "remove"
        => LET u == last'.user
               k == str(last'.pid)
               again == api_cart_delete(S2, u, last'.pid, FALSE, FALSE)
           IN /\ last'.status = 200
              /\ k \notin DOMAIN Cart(u)
                    => /\ ~last'.set_called
                       /\ StoreSame
                       /\ ~last'.read_error => last'.cart = Cart(u)
              /\ StoreWorked(last')
                    => /\ Cart2(u) = CartPop(Cart(u), k)
                       /\ last'.cart = Cart2(u)
                       /\ CartOf(again.S, u) = Cart2(u)
                       /\ again.cart = last'.cart
                       /\ ~again.set_called]_vars

RemoveAbsentWitness ==
    /\ last.op = "remove" /\ last.status = 200 /\ ~last.set_called /\ ~last.read_error
    /\ last.pid \in ProductIds
    /\ Cart(last.user) # EmptyCart
    /\ last.cart = Cart(last.user)

\* C6: checkout of an empty cart answers 400 (cart empty), add of a product id
\* without a row answers 404, update of a product without a line answers 404;
\* a request answered 400 or 404 leaves the whole store as it was, makes no
\* store write and returns no order.
FailedRequestsChangeNothing ==
    [][/\ (last'.op = "checkout" /\ Cart(last'.user) = EmptyCart)
            => last'.status = 400 /\ last'.error = "cart empty"
       /\ (last'.op = "add" /\ last'.pid # 0 /\ last'.pid \notin ProductIds)
            => last'.status = 404
       /\ (last'.op = "update" /\ str(last'.pid) \notin DOMAIN Cart(last'.user))
            => last'.status = 404
       /\ last'.status \in {400, 404}
            => StoreSame /\ last'.order = NoOrder /\ ~last'.set_called]_vars

FailedAddWitness ==
    /\ last.op = "add" /\ last.status = 404
    /\ Cart(last.user) # EmptyCart

\* C7: no request ends in a 500; a get whose store read fails answers 200 with
\* the empty cart; an add whose store write fails (after a read that worked)
\* answers 201 with the lines read plus its own change, and the store stays as
\* it was.
StoreFailuresNeverSurface ==
    [][/\ last'.status # 500
       /\ (last'.op = "get" /\ last'.read_error)
            => last'.status = 200 /\ last'.cart = EmptyCart
       /\ (last'.op = "add" /\ last'.write_error)
            => /\ last'.status = 201
               /\ StoreSame
               /\ ~last'.read_error
                    => LET u == last'.user
                           k == str(last'.pid)
                       IN /\ DOMAIN last'.cart = (DOMAIN Cart(u)) \cup {k}
                          /\ \A x \in (DOMAIN Cart(u)) \ {k} : last'.cart[x] = Cart(u)[x]
                          /\ last'.cart[k].quantity = QtyBefore(u, k) + last'.qty]_vars

WriteFailureWitness ==
    /\ last.op = "add" /\ last.status = 201 /\ last.write_error /\ ~last.read_error
    /\ Cart(last.user) # EmptyCart
    /\ last.cart # Cart(last.user)

\* the total of an order, taken product id by product id
RECURSIVE TotalByIds(_, _)
TotalByIds(items, ids) ==
    IF ids = {}
    THEN 0
    ELSE LET m == CHOOSE x \in ids : \A y \in ids : y <= x
         IN (IF str(m) \in DOMAIN items
             THEN items[str(m)].quantity * items[str(m)].price
             ELSE 0) + TotalByIds(items, ids \ {m})

\* C8: a successful checkout returns the cart it read as the items of the
\* order and the sum of price x quantity over these lines as its total; the
\* price of a stored line is set by an add of its product, to the catalog
\* price at that moment, and by nothing else: neither a change of the catalog
\* price nor any other request changes it.
CheckoutTotalFromSnapshot ==
    [][/\ (last'.op = "checkout" /\ last'.status = 201)
            => LET order == last'.order[1]
               IN /\ order.items = Cart(last'.user)
                  /\ order.total = TotalByIds(order.items, RequestIds)
                  /\ order.user_id = last'.user
       /\ \A u \in Users : \A k \in DOMAIN Cart2(u) :
            IF last'.op = "add" /\ last'.status = 201 /\ last'.user = u /\ str(last'.pid) = k
            THEN Cart2(u)[k].price = catalog[last'.pid].price
            ELSE k \in DOMAIN Cart(u) /\ Cart2(u)[k].price = Cart(u)[k].price
       /\ catalog' # catalog => StoreSame]_vars

SnapshotTotalWitness ==
    /\ last.op = "checkout" /\ last.status = 201
    /\ DOMAIN last.order[1].items = {"1", "2"}
    /\ last.order[1].items["1"].quantity = 2 /\ last.order[1].items["1"].price = 10
    /\ last.order[1].items["2"].quantity = 1 /\ last.order[1].items["2"].price = 5
    /\ last.order[1].total = 25
    /\ catalog[1].price = 5 /\ catalog[2].price = 10

\* C9: the store write of a request replaces the whole stored cart of its user
\* by the cart the request holds, whatever another request has written since
\* the read (last write wins).
LastWriteWins ==
    [][\A w \in Workers :
          (pc[w] = "write" /\ pc'[w] = "idle")
            => Cart2(req[w].user) = heap[loc[w][1]]]_vars

\* both requests were answered 201 and the line of one of them is not stored
LostUpdateWitness ==
    \E w, x \in Workers :
        /\ pc[w] = "idle" /\ pc[x] = "idle"
        /\ done[w].op = "add" /\ done[w].status = 201
        /\ done[x].op = "add" /\ done[x].status = 201
        /\ done[w].user = done[x].user
        /\ done[w].pid # done[x].pid
        /\ str(done[w].pid) \notin DOMAIN Cart(done[w].user)
        /\ str(done[x].pid) \in DOMAIN Cart(done[w].user)

\* C10: an add, update or remove for user u and product p changes at most the
\* line of p in the stored cart of u, also when a store read or write fails.
ClaimMutationFrame ==
    [][last'.op \in {"add", "update", "remove"}
        => \A v \in Users :
              \A k \in (DOMAIN Cart(v)) \cup (DOMAIN Cart2(v)) :
                 (v # last'.user \/ k # str(last'.pid))
                    => /\ k \in DOMAIN Cart(v)
                       /\ k \in DOMAIN Cart2(v)
                       /\ Cart2(v)[k] = Cart(v)[k]]_vars

====
